---- MODULE Spec2Model ----
(***************************************************************************)
(* A model of the crawler dashboard service of src/app.py: six HTTP routes  *)
(* that read the externally populated table "articles".  Text is a         *)
(* sequence of one-character strings; a nullable column is <<>> (SQL NULL,  *)
(* Python None) or <<v>>; timestamps are integers counted in ticks, with    *)
(* TicksPerDay ticks to the calendar day.                                   *)
(***************************************************************************)
EXTENDS Integers, Sequences, FiniteSets, TLC

VARIABLES
    articles,   \* the table, in heap (insertion) order
    now,        \* the database clock, NOW()
    pc,         \* where the request in progress stands; "idle" between requests
    args,       \* request.args (and the path parameter) of the request in progress
    locals,     \* the handler's local variables
    conns,      \* connections opened by get_db_connection() and not closed
    issued,     \* the (SQL text, bound parameters) pairs of the parameterised queries executed
    response    \* the response of the last finished request

vars == <<articles, now, pc, args, locals, conns, issued, response>>

-----------------------------------------------------------------------------
(* Bounds of the model *)

MaxRows == 2          \* rows the ingestion process inserts in the interleaved runs
MaxSampleRows == 2    \* rows of an initial table before the filler rows
MaxTicks == 1         \* clock ticks in the interleaved runs
MaxConns == 2         \* connections that can be open at once
TicksPerDay == 2      \* granularity of the clock

(* Program constants *)

per_page == 50
TopAuthorsLimit == 10
RecentLimit == 20
IntervalDays == 30
IntervalHours == 24

Window30d == IntervalDays * TicksPerDay
Window24h == (IntervalHours * TicksPerDay) \div 24

-----------------------------------------------------------------------------
(* Nullable values *)

NULL == <<>>
Some(v) == <<v>>
IsNull(x) == Len(x) = 0
Val(x) == x[1]

Min(a, b) == IF a < b THEN a ELSE b
Max(a, b) == IF a > b THEN a ELSE b

Range(s) == {s[i] : i \in 1..Len(s)}

(* The concatenation of the sequences of ss, by halves *)
RECURSIVE Flatten(_)
Flatten(ss) ==
    IF Len(ss) = 0 THEN <<>>
    ELSE IF Len(ss) = 1 THEN ss[1]
    ELSE Flatten(SubSeq(ss, 1, Len(ss) \div 2))
         \o Flatten(SubSeq(ss, Len(ss) \div 2 + 1, Len(ss)))

RECURSIVE Join(_, _)
Join(ss, sep) ==
    IF Len(ss) = 0 THEN <<>>
    ELSE IF Len(ss) = 1 THEN Head(ss)
    ELSE Head(ss) \o sep \o Join(Tail(ss), sep)

Reverse(s) == [i \in 1..Len(s) |-> s[Len(s) + 1 - i]]

-----------------------------------------------------------------------------
(* Text *)

UpperChars == <<"A", "B", "O", "L">>
LowerChars == <<"a", "b", "o", "l">>

LowerChar(c) ==
    IF \E i \in 1..Len(UpperChars) : UpperChars[i] = c
    THEN LowerChars[CHOOSE i \in 1..Len(UpperChars) : UpperChars[i] = c]
    ELSE c

DigitChars == <<"0", "1", "2", "3", "4", "5", "6", "7", "8", "9">>

IsDigit(c) == \E i \in 1..10 : DigitChars[i] = c
DigitVal(c) == (CHOOSE i \in 1..10 : DigitChars[i] = c) - 1

RECURSIVE Digits(_)
Digits(n) ==
    IF n < 10 THEN <<DigitChars[n + 1]>>
    ELSE Digits(n \div 10) \o <<DigitChars[(n % 10) + 1]>>

Pad2(n) == IF n < 10 THEN <<"0">> \o Digits(n) ELSE Digits(n)

RECURSIVE DigitsVal(_, _)
DigitsVal(s, acc) ==
    IF Len(s) = 0 THEN acc ELSE DigitsVal(Tail(s), acc * 10 + DigitVal(Head(s)))

(* int(text) of Python, as werkzeug's args.get(key, default, type=int) uses   *)
(* it: an optional sign and decimal digits give Some(n); anything else        *)
(* raises ValueError, NULL here.                                              *)
ParseInt(s) ==
    LET neg == Len(s) > 0 /\ s[1] = "-"
        signed == Len(s) > 0 /\ (s[1] = "-" \/ s[1] = "+")
        body == IF signed THEN Tail(s) ELSE s
    IN  IF Len(body) > 0 /\ \A i \in 1..Len(body) : IsDigit(body[i])
        THEN Some(IF neg THEN 0 - DigitsVal(body, 0) ELSE DigitsVal(body, 0))
        ELSE NULL

(* request.args.get('page', 1, type=int): the default when the key is absent  *)
(* or the conversion raises.                                                  *)
GetPage(raw) ==
    IF IsNull(raw) THEN 1
    ELSE IF IsNull(ParseInt(Val(raw))) THEN 1
    ELSE Val(ParseInt(Val(raw)))

-----------------------------------------------------------------------------
(* SQL: three-valued logic, LIKE, ORDER BY, LIMIT/OFFSET *)

Or3(a, b) ==
    IF a = "t" \/ b = "t" THEN "t" ELSE IF a = "n" \/ b = "n" THEN "n" ELSE "f"

And3(a, b) ==
    IF a = "f" \/ b = "f" THEN "f" ELSE IF a = "n" \/ b = "n" THEN "n" ELSE "t"

Bool3(b) == IF b THEN "t" ELSE "f"

(* s ILIKE p from position i of s and j of p: % is any run of characters, _   *)
(* any one character, backslash makes the next pattern character literal.    *)
RECURSIVE ILikeFrom(_, _, _, _)
ILikeFrom(s, i, p, j) ==
    IF j > Len(p) THEN i > Len(s)
    ELSE IF p[j] = "%"
         THEN ILikeFrom(s, i, p, j + 1) \/ (i <= Len(s) /\ ILikeFrom(s, i + 1, p, j))
    ELSE IF p[j] = "_"
         THEN i <= Len(s) /\ ILikeFrom(s, i + 1, p, j + 1)
    ELSE IF p[j] = "\\"
         THEN /\ j + 1 <= Len(p)
              /\ i <= Len(s)
              /\ LowerChar(s[i]) = LowerChar(p[j + 1])
              /\ ILikeFrom(s, i + 1, p, j + 2)
    ELSE /\ i <= Len(s)
         /\ LowerChar(s[i]) = LowerChar(p[j])
         /\ ILikeFrom(s, i + 1, p, j + 1)

ILike(x, p) == IF IsNull(x) THEN "n" ELSE Bool3(ILikeFrom(Val(x), 1, p, 1))

(* A comparison that folds case *)
Eq3NoCase(x, v) ==
    IF IsNull(x) THEN "n"
    ELSE Bool3([i \in 1..Len(Val(x)) |-> LowerChar(Val(x)[i])]
               = [i \in 1..Len(v) |-> LowerChar(v[i])])

Eq3(x, v) == IF IsNull(x) THEN "n" ELSE Bool3(Val(x) = v)

(* crawled_at > NOW() - INTERVAL *)
After3(x, t) == IF IsNull(x) THEN "n" ELSE Bool3(Val(x) > t)

(* DATE(crawled_at) *)
DateOf(t) == t \div TicksPerDay

(* ORDER BY crawled_at DESC: NULLs first, then the larger timestamp first;   *)
(* SQL leaves the order of rows with equal keys open, a query returns them    *)
(* in heap order or against it.                                               *)
TieOrders == {"heap", "reverse"}

KeyOf(r) == r.crawled_at

Bucket(rows, k, tie) ==
    LET Same(r) == KeyOf(r) = k
        b == SelectSeq(rows, Same)
    IN  IF tie = "heap" THEN b ELSE Reverse(b)

RECURSIVE SortBuckets(_, _, _)
SortBuckets(rows, times, tie) ==
    IF times = {} THEN <<>>
    ELSE LET m == CHOOSE t \in times : \A u \in times : u <= t
         IN  Bucket(rows, Some(m), tie) \o SortBuckets(rows, times \ {m}, tie)

OrderByCrawledDesc(rows, tie) ==
    LET times == {Val(KeyOf(rows[i])) : i \in {j \in 1..Len(rows) : ~IsNull(KeyOf(rows[j]))}}
    IN  Bucket(rows, NULL, tie) \o SortBuckets(rows, times, tie)

(* LIMIT without the OFFSET *)
LimitOnly(rows, lim, off) == SubSeq(rows, 1, Min(Len(rows), lim))

(* LIMIT lim OFFSET off, for off >= 0 *)
LimitOffset(rows, lim, off) == SubSeq(rows, off + 1, Min(Len(rows), off + lim))

-----------------------------------------------------------------------------
(* Text order of ORDER BY author: by character code *)

CharCodes == <<"\"", "%", ",", "A", "B", "L", "O", "_", "a", "b", "l", "o", "u">>

CharCode(c) == CHOOSE i \in 1..Len(CharCodes) : CharCodes[i] = c

RECURSIVE TextLess(_, _)
TextLess(a, b) ==
    IF Len(b) = 0 THEN FALSE
    ELSE IF Len(a) = 0 THEN TRUE
    ELSE IF Head(a) = Head(b) THEN TextLess(Tail(a), Tail(b))
    ELSE CharCode(Head(a)) < CharCode(Head(b))

RECURSIVE SortTexts(_)
SortTexts(S) ==
    IF S = {} THEN <<>>
    ELSE LET m == CHOOSE a \in S : \A b \in S : a = b \/ TextLess(a, b)
         IN  <<m>> \o SortTexts(S \ {m})

-----------------------------------------------------------------------------
(* The queries of the handlers, as the database evaluates them on a table *)

Project(rows, cols) == [i \in 1..Len(rows) |-> [c \in cols |-> rows[i][c]]]

Rows(tbl) == {tbl[i] : i \in 1..Len(tbl)}

NonNullTimes(tbl) == {Val(r.crawled_at) : r \in {q \in Rows(tbl) : ~IsNull(q.crawled_at)}}

MinOf(S) == IF S = {} THEN NULL ELSE Some(CHOOSE m \in S : \A u \in S : m <= u)
MaxOf(S) == IF S = {} THEN NULL ELSE Some(CHOOSE m \in S : \A u \in S : u <= m)

(* SELECT COUNT( * ) as total FROM articles *)
QTotalArticles(tbl) == Len(tbl)

(* SELECT COUNT(DISTINCT author) as total FROM articles WHERE author IS NOT NULL *)
QTotalAuthors(tbl) == Cardinality({r.author : r \in {q \in Rows(tbl) : ~IsNull(q.author)}})

(* SELECT COUNT( * ) as recent FROM articles WHERE crawled_at > NOW() - INTERVAL '24 hours' *)
QRecent24h(tbl, t) ==
    LET Recent(r) == After3(r.crawled_at, t - Window24h) = "t"
    IN  Len(SelectSeq(tbl, Recent))

(* SELECT MIN(crawled_at) as first, MAX(crawled_at) as last FROM articles *)
QDates(tbl) == [first |-> MinOf(NonNullTimes(tbl)), last |-> MaxOf(NonNullTimes(tbl))]

(* The groups of GROUP BY author, in the order the executor meets them:     *)
(* by the first row of each author.                                           *)
FirstRows(tbl) ==
    {i \in 1..Len(tbl) :
        ~IsNull(tbl[i].author) /\ \A j \in 1..(i - 1) : tbl[j].author # tbl[i].author}

RECURSIVE AuthorsAt(_, _)
AuthorsAt(tbl, firsts) ==
    IF firsts = {} THEN <<>>
    ELSE LET i == CHOOSE x \in firsts : \A y \in firsts : x <= y
         IN  <<tbl[i].author>> \o AuthorsAt(tbl, firsts \ {i})

AuthorGroups(tbl) == AuthorsAt(tbl, FirstRows(tbl))

AuthorCount(tbl, a) ==
    LET By(r) == r.author = a
    IN  Len(SelectSeq(tbl, By))

RECURSIVE SortByCountDesc(_, _)
SortByCountDesc(groups, counts) ==
    IF counts = {} THEN <<>>
    ELSE LET n == CHOOSE x \in counts : \A y \in counts : y <= x
             Has(g) == g.article_count = n
         IN  SelectSeq(groups, Has) \o SortByCountDesc(groups, counts \ {n})

(* SELECT author, COUNT( * ) as article_count FROM articles WHERE author IS NOT  *)
(* NULL GROUP BY author ORDER BY article_count DESC LIMIT 10                  *)
QTopAuthors(tbl, tie) ==
    LET met == IF tie = "heap" THEN AuthorGroups(tbl) ELSE Reverse(AuthorGroups(tbl))
        groups == [i \in 1..Len(met) |->
                     [author |-> met[i], article_count |-> AuthorCount(tbl, met[i])]]
    IN  LimitOffset(SortByCountDesc(groups, {groups[i].article_count : i \in 1..Len(groups)}),
                    TopAuthorsLimit, 0)

(* SELECT title, author, url, crawled_at FROM articles ORDER BY crawled_at    *)
(* DESC LIMIT 20                                                              *)
QRecentArticles(tbl, tie) ==
    LimitOffset(
        Project(OrderByCrawledDesc(tbl, tie), {"crawled_at", "author", "title", "url"}),
        RecentLimit, 0)

(* SELECT DISTINCT author FROM articles WHERE author IS NOT NULL ORDER BY author *)
QAuthors(tbl) ==
    SortTexts({Val(r.author) : r \in {q \in Rows(tbl) : ~IsNull(q.author)}})

(* SELECT COUNT( * ) as article_count, MIN(crawled_at) as first_article,        *)
(* MAX(crawled_at) as latest_article FROM articles WHERE author = %s          *)
QAuthorStats(tbl, name) ==
    LET By(r) == Eq3(r.author, name) = "t"
        mine == SelectSeq(tbl, By)
    IN  [article_count |-> Len(mine),
         first_article |-> MinOf(NonNullTimes(mine)),
         latest_article |-> MaxOf(NonNullTimes(mine))]

(* SELECT title, url, crawled_at FROM articles WHERE author = %s ORDER BY     *)
(* crawled_at DESC                                                            *)
QAuthorArticles(tbl, name, tie) ==
    LET By(r) == Eq3(r.author, name) = "t"
    IN  Project(OrderByCrawledDesc(SelectSeq(tbl, By), tie), {"crawled_at", "title", "url"})

RECURSIVE DailyGroups(_, _)
DailyGroups(rows, days) ==
    IF days = {} THEN <<>>
    ELSE LET d == CHOOSE x \in days : \A y \in days : x <= y
             On(r) == DateOf(Val(r.crawled_at)) = d
         IN  <<[date |-> Some(d), count |-> Len(SelectSeq(rows, On))]>>
             \o DailyGroups(rows, days \ {d})

(* The window with >= in place of > *)
QDailyCountsInclusive(tbl, t) ==
    LET In(r) == After3(r.crawled_at, t - Window30d - 1) = "t"
        rows == SelectSeq(tbl, In)
    IN  DailyGroups(rows, {DateOf(u) : u \in NonNullTimes(rows)})

(* SELECT DATE(crawled_at) as date, COUNT( * ) as count FROM articles WHERE     *)
(* crawled_at > NOW() - INTERVAL '30 days' GROUP BY DATE(crawled_at) ORDER BY *)
(* date                                                                       *)
QDailyCounts(tbl, t) ==
    LET In(r) == After3(r.crawled_at, t - Window30d) = "t"
        rows == SelectSeq(tbl, In)
    IN  DailyGroups(rows, {DateOf(u) : u \in NonNullTimes(rows)})

(* SELECT title, author, url, crawled_at FROM articles ORDER BY crawled_at DESC *)
QExport(tbl, tie) ==
    Project(OrderByCrawledDesc(tbl, tie), {"crawled_at", "author", "title", "url"})

-----------------------------------------------------------------------------
(* The dynamic WHERE clause of articles() *)

Placeholder == "%s"

SearchClause == <<"(title ILIKE ", Placeholder, " OR author ILIKE ", Placeholder, ")">>
AuthorClause == <<"author = ", Placeholder>>

(* f'%{search}%' *)
Wrap(search) == <<"%">> \o search \o <<"%">>

BuildWhere(search, author_filter) ==
    LET c1 == IF Len(search) > 0 THEN <<SearchClause>> ELSE <<>>
        p1 == IF Len(search) > 0 THEN <<Wrap(search), Wrap(search)>> ELSE <<>>
        c2 == IF Len(author_filter) > 0 THEN <<AuthorClause>> ELSE <<>>
        p2 == IF Len(author_filter) > 0 THEN <<author_filter>> ELSE <<>>
    IN  [where_clauses |-> c1 \o c2, params |-> p1 \o p2]

(* " AND ".join(where_clauses) if where_clauses else "1=1" *)
WhereSql(where_clauses) ==
    IF Len(where_clauses) > 0 THEN Join(where_clauses, <<" AND ">>) ELSE <<"1=1">>

CountSql(where_sql) == <<"SELECT COUNT(", "*", ") as total FROM articles WHERE ">> \o where_sql

PageSql(where_sql) ==
    <<"SELECT id, title, author, url, crawled_at FROM articles WHERE ">> \o where_sql
    \o <<" ORDER BY crawled_at DESC LIMIT ", Placeholder, " OFFSET ", Placeholder>>

(* The limit and the offset in the wrong order *)
PageParamsSwapped(params, offset) == params \o <<offset, per_page>>

(* params.extend([per_page, offset]) *)
PageParams(params, offset) == params \o <<per_page, offset>>

AuthorStatsSql ==
    <<"SELECT COUNT(", "*", ") as article_count, MIN(crawled_at) as first_article, MAX(crawled_at) as latest_article FROM articles WHERE author = ",
      Placeholder>>

AuthorArticlesSql ==
    <<"SELECT title, url, crawled_at FROM articles WHERE author = ", Placeholder,
      " ORDER BY crawled_at DESC">>

(* The database's evaluation of the WHERE clauses on a row, the placeholders  *)
(* taking the bound parameters in order.                                      *)
RECURSIVE EvalWhere(_, _, _)
EvalWhere(where_clauses, params, r) ==
    IF Len(where_clauses) = 0 THEN "t"
    ELSE IF Head(where_clauses) = SearchClause
         THEN And3(Or3(ILike(r.title, params[1]), ILike(r.author, params[2])),
                   EvalWhere(Tail(where_clauses), SubSeq(params, 3, Len(params)), r))
    ELSE And3(Eq3(r.author, params[1]),
              EvalWhere(Tail(where_clauses), Tail(params), r))

Matching(tbl, where_clauses, params) ==
    LET Sel(r) == EvalWhere(where_clauses, params, r) = "t"
    IN  SelectSeq(tbl, Sel)

(* SELECT COUNT( * ) as total FROM articles WHERE {where_sql} *)
QCount(tbl, where_clauses, params) == Len(Matching(tbl, where_clauses, params))

(* SELECT ... WHERE {where_sql} ORDER BY crawled_at DESC LIMIT %s OFFSET %s;  *)
(* the last two bound parameters are the limit and the offset.                *)
QPage(tbl, where_clauses, params, tie) ==
    LET n == Len(params)
    IN  LimitOffset(OrderByCrawledDesc(Matching(tbl, where_clauses, SubSeq(params, 1, n - 2)), tie),
                    params[n - 1], params[n])

(* PostgreSQL rejects a negative LIMIT or OFFSET *)
PageQueryRaises(params) == params[Len(params) - 1] < 0 \/ params[Len(params)] < 0

-----------------------------------------------------------------------------
(* strftime and csv.writer *)

(* '%Y-%m-%d': the calendar day, written as its number *)
FormatDate(d) == Digits(d)

(* '%Y-%m-%d %H:%M:%S' *)
FormatTimestamp(t) ==
    FormatDate(DateOf(t)) \o <<" ">> \o Pad2(((t % TicksPerDay) * 24) \div TicksPerDay)
    \o <<":", "0", "0", ":", "0", "0">>

CsvSpecial == {",", "\"", "\r", "\n"}

(* QUOTE_MINIMAL: a field holding a delimiter, a quote or a line break is     *)
(* quoted, its quotes doubled.                                                *)
CsvField(f) ==
    IF \E i \in 1..Len(f) : f[i] \in CsvSpecial
    THEN <<"\"">>
         \o Flatten([i \in 1..Len(f) |-> IF f[i] = "\"" THEN <<"\"", "\"">> ELSE <<f[i]>>])
         \o <<"\"">>
    ELSE f

CsvRow(fields) ==
    Join([i \in 1..Len(fields) |-> CsvField(fields[i])], <<",">>) \o <<"\r", "\n">>

(* str(x) *)
StrOf(x) == IF IsNull(x) THEN <<"N", "o", "n", "e">> ELSE Val(x)

(* x or '' *)
OrEmpty(x) == IF IsNull(x) \/ Len(Val(x)) = 0 THEN <<>> ELSE Val(x)

CrawledAtStr(x) == IF IsNull(x) THEN <<>> ELSE FormatTimestamp(Val(x))

ArticleFields(a) ==
    <<OrEmpty(a.title), OrEmpty(a.author), OrEmpty(a.url), CrawledAtStr(a.crawled_at)>>

CsvHeader == <<<<"T", "i", "t", "l", "e">>, <<"A", "u", "t", "h", "o", "r">>,
               <<"U", "R", "L">>, <<"C", "r", "a", "w", "l", "e", "d", " ", "A", "t">>>>

CsvOutput(articles_list) ==
    CsvRow(CsvHeader)
    \o Flatten([i \in 1..Len(articles_list) |-> CsvRow(ArticleFields(articles_list[i]))])

(* The result rows of api_stats() as JSON objects *)
DailyCountsJson(daily_counts) ==
    [i \in 1..Len(daily_counts) |->
        [date |-> IF IsNull(daily_counts[i].date) THEN NULL
                  ELSE Some(FormatDate(Val(daily_counts[i].date))),
         count |-> daily_counts[i].count]]

-----------------------------------------------------------------------------
(* The inputs: rows the ingestion process writes, and request parameters *)

StartNow == Window30d + 1
MaxNow == StartNow + MaxTicks

bob == <<"b", "o", "b">>
Bob == <<"B", "o", "b">>
al == <<"a", "l">>
link == <<"u">>

Row(title, author, url, crawled_at) ==
    [crawled_at |-> crawled_at, author |-> author, title |-> title, url |-> url]

SampleRows ==
    { Row(Some(<<"A">>), Some(bob), Some(link), Some(StartNow - 1)),
      Row(Some(<<"B">>), NULL, Some(link), Some(StartNow)),
      Row(NULL, Some(Bob), NULL, NULL),
      Row(Some(<<"a", ",", "\"">>), Some(al), Some(link), Some(StartNow - Window30d + 1)),
      Row(Some(<<>>), Some(bob), Some(<<>>), Some(StartNow - Window30d)),
      Row(Some(<<"_", "b">>), Some(al), Some(link), Some(StartNow - Window30d + 2)) }

FillerRow == Row(Some(<<"a">>), NULL, Some(link), Some(StartNow - 1))

FillerCounts == {0, per_page - 1, per_page}

(* The store assigns the ids *)
WithIds(rows) ==
    [i \in 1..Len(rows) |->
        [crawled_at |-> rows[i].crawled_at, author |-> rows[i].author,
         title |-> rows[i].title, url |-> rows[i].url, id |-> i]]

SampleTables == UNION {[1..n -> SampleRows] : n \in 0..MaxSampleRows}

Filler(n) == [i \in 1..n |-> FillerRow]

PageArgs ==
    {NULL, Some(<<"x">>), Some(<<"0">>), Some(<<"-", "1">>), Some(<<"1">>), Some(<<"2">>),
     Some(<<"3">>)}

FilterArgs ==
    { <<<<>>, <<>>>>, <<<<"a">>, <<>>>>, <<<<"B", "O">>, <<>>>>, <<<<"_">>, <<>>>>,
      <<<<"%">>, <<>>>>, <<<<>>, bob>>, <<<<"a">>, bob>>, <<<<"b">>, al>> }

AuthorNames == {bob, Bob, al, <<"l">>}

-----------------------------------------------------------------------------
(* The state machine *)

NoLocals == [none |-> TRUE]
NoArgs == [route |-> "none"]
NoResponse == [route |-> "none"]

Ok(route, body) == [body |-> body, route |-> route, status |-> 200, injected |-> FALSE]

(* An unhandled exception: Flask answers 500.  injected tells a failure of   *)
(* the database from an error the request itself caused.                      *)
ServerError(route, injected) ==
    [body |-> NoLocals, route |-> route, status |-> 500, injected |-> injected]

Executed(text, params) == Append(issued, [params |-> params, text |-> text])

(* get_db_connection() at the head of a handler *)
Begin(a, l, next) ==
    /\ pc = "idle"
    /\ conns < MaxConns
    /\ args' = a
    /\ locals' = l
    /\ pc' = next
    /\ conns' = conns + 1
    /\ issued' = <<>>
    /\ response' = NoResponse
    /\ UNCHANGED <<articles, now>>

(* cursor.close(); conn.close(); return ... *)
Finish(body) ==
    /\ response' = Ok(args.route, body)
    /\ conns' = conns - 1
    /\ pc' = "idle"
    /\ locals' = NoLocals

(* The exception leaves the handler: the lines after the query do not run *)
Raise(injected) ==
    /\ response' = ServerError(args.route, injected)
    /\ pc' = "idle"
    /\ locals' = NoLocals
    /\ UNCHANGED conns

Step(l, next) ==
    /\ locals' = l
    /\ pc' = next
    /\ UNCHANGED <<conns, response>>

(* index() *)
IndexStart == Begin([route |-> "index"], NoLocals, "index_total")

IndexTotal ==
    /\ pc = "index_total"
    /\ Step([total_articles |-> QTotalArticles(articles)], "index_authors")
    /\ UNCHANGED <<articles, now, args, issued>>

IndexAuthors ==
    /\ pc = "index_authors"
    /\ Step([total_articles |-> locals.total_articles,
             total_authors |-> QTotalAuthors(articles)], "index_recent")
    /\ UNCHANGED <<articles, now, args, issued>>

IndexRecent ==
    /\ pc = "index_recent"
    /\ Step([total_articles |-> locals.total_articles,
             total_authors |-> locals.total_authors,
             recent_24h |-> QRecent24h(articles, now)], "index_dates")
    /\ UNCHANGED <<articles, now, args, issued>>

IndexDates ==
    /\ pc = "index_dates"
    /\ Step([total_articles |-> locals.total_articles,
             total_authors |-> locals.total_authors,
             recent_24h |-> locals.recent_24h,
             dates |-> QDates(articles)], "index_top")
    /\ UNCHANGED <<articles, now, args, issued>>

IndexTop ==
    /\ pc = "index_top"
    /\ \E tie \in TieOrders :
         Step([total_articles |-> locals.total_articles,
               total_authors |-> locals.total_authors,
               recent_24h |-> locals.recent_24h,
               dates |-> locals.dates,
               top_authors |-> QTopAuthors(articles, tie)], "index_articles")
    /\ UNCHANGED <<articles, now, args, issued>>

IndexArticles ==
    /\ pc = "index_articles"
    /\ \E tie \in TieOrders :
         Finish([total_articles |-> locals.total_articles,
                 total_authors |-> locals.total_authors,
                 recent_24h |-> locals.recent_24h,
                 top_authors |-> locals.top_authors,
                 first_crawl |-> locals.dates.first,
                 last_crawl |-> locals.dates.last,
                 recent_articles |-> QRecentArticles(articles, tie)])
    /\ UNCHANGED <<articles, now, args, issued>>

(* articles() *)
ArticlesStart ==
    \E raw \in PageArgs, f \in FilterArgs :
        LET w == BuildWhere(f[1], f[2])
        IN  Begin([author |-> f[2], search |-> f[1], route |-> "articles", page |-> raw],
                  [where_clauses |-> w.where_clauses, params |-> w.params,
                   where_sql |-> WhereSql(w.where_clauses), page |-> GetPage(raw)],
                  "articles_count")

ArticlesCount ==
    /\ pc = "articles_count"
    /\ issued' = Executed(CountSql(locals.where_sql), locals.params)
    /\ Step([where_clauses |-> locals.where_clauses, params |-> locals.params,
             where_sql |-> locals.where_sql, page |-> locals.page,
             total |-> QCount(articles, locals.where_clauses, locals.params)],
            "articles_page")
    /\ UNCHANGED <<articles, now, args>>

ArticlesPage ==
    /\ pc = "articles_page"
    /\ LET offset == (locals.page - 1) * per_page
           params == PageParams(locals.params, offset)
       IN  /\ issued' = Executed(PageSql(locals.where_sql), params)
           /\ IF PageQueryRaises(params)
              THEN Raise(FALSE)
              ELSE \E tie \in TieOrders :
                     Step([articles_list |-> QPage(articles, locals.where_clauses, params, tie),
                           page |-> locals.page, total |-> locals.total],
                          "articles_authors")
    /\ UNCHANGED <<articles, now, args>>

ArticlesAuthors ==
    /\ pc = "articles_authors"
    /\ Finish([articles |-> locals.articles_list,
               search |-> args.search,
               author_filter |-> args.author,
               page |-> locals.page,
               total |-> locals.total,
               total_pages |-> (locals.total + per_page - 1) \div per_page,
               authors |-> QAuthors(articles)])
    /\ UNCHANGED <<articles, now, args, issued>>

(* author_profile(author_name) *)
AuthorStart ==
    \E name \in AuthorNames :
        Begin([route |-> "author", author_name |-> name], NoLocals, "author_stats")

AuthorStats ==
    /\ pc = "author_stats"
    /\ issued' = Executed(AuthorStatsSql, <<args.author_name>>)
    /\ Step([author_stats |-> QAuthorStats(articles, args.author_name)], "author_articles")
    /\ UNCHANGED <<articles, now, args>>

AuthorArticles ==
    /\ pc = "author_articles"
    /\ issued' = Executed(AuthorArticlesSql, <<args.author_name>>)
    /\ \E tie \in TieOrders :
         Finish([articles |-> QAuthorArticles(articles, args.author_name, tie),
                 author_name |-> args.author_name,
                 stats |-> locals.author_stats])
    /\ UNCHANGED <<articles, now, args>>

(* A handler that prunes the rows outside the window it reports *)
StatsDailyPruning ==
    /\ pc = "stats_daily"
    /\ Finish([daily_counts |-> DailyCountsJson(QDailyCounts(articles, now))])
    /\ LET In(r) == After3(r.crawled_at, now - Window30d) = "t"
       IN  articles' = SelectSeq(articles, In)
    /\ UNCHANGED <<now, args, issued>>

(* api_stats() *)
StatsStart == Begin([route |-> "api_stats"], NoLocals, "stats_daily")

StatsDaily ==
    /\ pc = "stats_daily"
    /\ Finish([daily_counts |-> DailyCountsJson(QDailyCounts(articles, now))])
    /\ UNCHANGED <<articles, now, args, issued>>

(* export() *)
Export ==
    /\ pc = "idle"
    /\ args' = [route |-> "export"]
    /\ response' = Ok("export", [template |-> "export.html"])
    /\ issued' = <<>>
    /\ UNCHANGED <<articles, now, pc, locals, conns>>

(* export_csv() *)
CsvStart == Begin([route |-> "export_csv"], NoLocals, "csv_select")

CsvSelect ==
    /\ pc = "csv_select"
    /\ \E tie \in TieOrders :
         Finish([output |-> CsvOutput(QExport(articles, tie)),
                 mimetype |-> "text/csv",
                 disposition |-> "attachment; filename=articles.csv"])
    /\ UNCHANGED <<articles, now, args, issued>>

(* A query fails in the database: cursor.execute raises *)
QueryError ==
    /\ pc # "idle"
    /\ Raise(TRUE)
    /\ UNCHANGED <<articles, now, args, issued>>

(* psycopg.connect raises: no connection is made *)
ConnectError ==
    /\ pc = "idle"
    /\ \E route \in {"articles", "author", "index", "api_stats", "export_csv"} :
         /\ args' = [route |-> route]
         /\ response' = ServerError(route, TRUE)
    /\ issued' = <<>>
    /\ UNCHANGED <<articles, now, pc, locals, conns>>

(* The external ingestion process inserts a row *)
Ingest ==
    /\ Len(articles) < MaxRows
    /\ \E r \in SampleRows : articles' = WithIds(articles \o <<r>>)
    /\ UNCHANGED <<now, pc, args, locals, conns, issued, response>>

(* Time passes *)
Tick ==
    /\ now < MaxNow
    /\ now' = now + 1
    /\ UNCHANGED <<articles, pc, args, locals, conns, issued, response>>

Handlers ==
    \/ IndexStart \/ IndexTotal \/ IndexAuthors \/ IndexRecent \/ IndexDates
    \/ IndexTop \/ IndexArticles
    \/ ArticlesStart \/ ArticlesCount \/ ArticlesPage \/ ArticlesAuthors
    \/ AuthorStart \/ AuthorStats \/ AuthorArticles
    \/ StatsStart \/ StatsDaily
    \/ Export
    \/ CsvStart \/ CsvSelect

Idle ==
    /\ pc = "idle"
    /\ args = NoArgs
    /\ locals = NoLocals
    /\ conns = 0
    /\ issued = <<>>
    /\ response = NoResponse

(* The service beside the ingestion process, the clock and a database that    *)
(* can fail.                                                                  *)
Init ==
    /\ articles = <<>>
    /\ now = StartNow
    /\ Idle

Next == Handlers \/ QueryError \/ ConnectError \/ Ingest \/ Tick

Spec == Init /\ [][Next]_vars

(* The service on a table and at a time that do not change: every table of    *)
(* sample rows, alone or before a run of filler rows long enough to fill      *)
(* pages.                                                                     *)
InitQuiet ==
    /\ \E base \in SampleTables, n \in FillerCounts :
         /\ n = 0 \/ Len(base) <= 1
         /\ articles = WithIds(base \o Filler(n))
    /\ now \in StartNow..MaxNow
    /\ Idle

NextQuiet == Handlers

SpecQuiet == InitQuiet /\ [][NextQuiet]_vars

-----------------------------------------------------------------------------
(* Vocabulary of the properties *)

Finished(route) == pc = "idle" /\ response.route = route

Served(route) == Finished(route) /\ response.status = 200

(* k1 comes strictly before k2 in descending order, NULLs first *)
KeyBefore(k1, k2) ==
    \/ IsNull(k1) /\ ~IsNull(k2)
    \/ ~IsNull(k1) /\ ~IsNull(k2) /\ Val(k1) > Val(k2)

NumBefore(S, k) == Cardinality({i \in 1..Len(S) : KeyBefore(S[i].crawled_at, k)})

NumNotAfter(S, k) == Cardinality({i \in 1..Len(S) : ~KeyBefore(k, S[i].crawled_at)})

(* A row of key k can stand at position pos of S sorted by crawled_at         *)
(* descending: the rows before it are at least those of a strictly earlier    *)
(* key and at most those of a key not later.                                  *)
SortedPlace(S, k, pos) == NumBefore(S, k) < pos /\ pos <= NumNotAfter(S, k)

(* R, rows carrying the columns cols, is the run of S sorted by crawled_at    *)
(* descending that starts after the first off rows.                           *)
IsSortedRun(R, S, cols, off) ==
    /\ \A i \in 1..Len(R) :
         /\ SortedPlace(S, R[i].crawled_at, off + i)
         /\ Cardinality({j \in 1..Len(R) : R[j] = R[i]})
              <= Cardinality({j \in 1..Len(S) : [c \in cols |-> S[j][c]] = R[i]})
    /\ \A i \in 1..(Len(R) - 1) : ~KeyBefore(R[i + 1].crawled_at, R[i].crawled_at)

CeilDiv(n, d) == CHOOSE k \in 0..n : k * d >= n /\ (k = 0 \/ (k - 1) * d < n)

AllColumns == {"crawled_at", "author", "title", "url", "id"}

-----------------------------------------------------------------------------
(* C1: a Listing request for an integer page >= 1 reports total = the number  *)
(* of rows its filter selects and total_pages = ceil(total / 50), returns the *)
(* rows at positions (page-1)*50 .. (page-1)*50+49 of the selected rows       *)
(* sorted by crawled_at descending, and returns no row and no error for a     *)
(* page after the last.                                                       *)
C1_Pagination ==
    (Finished("articles") /\ GetPage(args.page) >= 1) =>
        LET w == BuildWhere(args.search, args.author)
            S == Matching(articles, w.where_clauses, w.params)
            b == response.body
            off == (b.page - 1) * 50
        IN  /\ response.status = 200
            /\ b.page = GetPage(args.page)
            /\ b.total = Len(S)
            /\ b.total_pages = CeilDiv(Len(S), 50)
            /\ Len(b.articles) = Min(50, Max(0, Len(S) - off))
            /\ IsSortedRun(b.articles, S, AllColumns, off)
            /\ (b.page > b.total_pages => b.articles = <<>>)

C1_Witness ==
    /\ Served("articles")
    /\ response.body.page = 2
    /\ response.body.total = 51
    /\ response.body.total_pages = 2
    /\ Len(response.body.articles) = 1

-----------------------------------------------------------------------------
(* s, compared without regard to case, is a substring of the text x *)
ContainsCI(x, s) ==
    /\ ~IsNull(x)
    /\ \E k \in 0..(Len(Val(x)) - Len(s)) :
         \A i \in 1..Len(s) : LowerChar(Val(x)[k + i]) = LowerChar(s[i])

(* The filter as the specification words it *)
Selected(r, search, author) ==
    /\ Len(search) > 0 => (ContainsCI(r.title, search) \/ ContainsCI(r.author, search))
    /\ Len(author) > 0 => (~IsNull(r.author) /\ Val(r.author) = author)

SelectedRows(tbl, search, author) ==
    LET Sel(r) == Selected(r, search, author)
    IN  SelectSeq(tbl, Sel)

(* C2: Listing selects a row exactly when the search string, compared         *)
(* case-insensitively, is a substring of its title or of its author, and      *)
(* (when an author is given) its author equals the author parameter; with     *)
(* neither parameter every row is selected.                                   *)
C2_FilterIsSubstringMatch ==
    Served("articles") =>
        LET S == SelectedRows(articles, args.search, args.author)
            off == (response.body.page - 1) * 50
        IN  /\ response.body.total = Len(S)
            /\ \A i \in 1..Len(response.body.articles) :
                 Selected(response.body.articles[i], args.search, args.author)
            /\ Len(response.body.articles) = Min(50, Max(0, Len(S) - off))

(* The same, for search strings free of the LIKE metacharacters *)
HasLikeMeta(s) == \E i \in 1..Len(s) : s[i] \in {"\\", "%", "_"}

C2_FilterOfPlainSearch ==
    (Served("articles") /\ ~HasLikeMeta(args.search)) => C2_FilterIsSubstringMatch

-----------------------------------------------------------------------------
(* C3: no connection stays open once a request has ended, whatever the exit   *)
(* path of the handler.                                                       *)
C3_ConnectionsClosed == pc = "idle" => conns = 0

-----------------------------------------------------------------------------
(* C4: a response is computed from one state of the table: a Listing response *)
(* holds min(50, max(0, total - (page-1)*50)) rows for the total it reports,  *)
(* and in an Overview response neither the 24-hour count nor the number of    *)
(* recent articles exceeds the total article count.                           *)
C4_SnapshotPerResponse ==
    /\ Served("articles") =>
         Len(response.body.articles)
           = Min(50, Max(0, response.body.total - (response.body.page - 1) * 50))
    /\ Served("index") =>
         /\ response.body.recent_24h <= response.body.total_articles
         /\ Len(response.body.recent_articles) <= response.body.total_articles

-----------------------------------------------------------------------------
(* C8: with a working database Listing answers every value of page without    *)
(* an error, and as for page 1 when the value is absent or not an integer.    *)
C8_PageNeverFails ==
    (Finished("articles") /\ ~response.injected) =>
        /\ response.status = 200
        /\ (IsNull(args.page) \/ IsNull(ParseInt(Val(args.page)))) => response.body.page = 1

-----------------------------------------------------------------------------
(* C5: Daily stats lists, in ascending date order, exactly the calendar dates *)
(* on which an article has crawled_at within the trailing 30 days, each once, *)
(* with the number of such articles, and lists no date with count 0.          *)
InWindow(r) == ~IsNull(r.crawled_at) /\ Val(r.crawled_at) > now - 30 * TicksPerDay

WindowDays == {Val(r.crawled_at) \div TicksPerDay : r \in {q \in Rows(articles) : InWindow(q)}}

OnDay(d) == {i \in 1..Len(articles) :
               InWindow(articles[i]) /\ Val(articles[i].crawled_at) \div TicksPerDay = d}

C5_DailyStats ==
    Served("api_stats") =>
        LET out == response.body.daily_counts
        IN  /\ \A d \in WindowDays :
                 \E i \in 1..Len(out) :
                    /\ out[i].date = Some(FormatDate(d))
                    /\ out[i].count = Cardinality(OnDay(d))
                    /\ \A j \in 1..Len(out) : out[j].date = out[i].date => j = i
            /\ \A i \in 1..Len(out) :
                 /\ out[i].count > 0
                 /\ \E d \in WindowDays : out[i].date = Some(FormatDate(d))
            /\ \A i, j \in 1..Len(out) :
                 i < j => \E d, e \in WindowDays :
                            /\ d < e
                            /\ out[i].date = Some(FormatDate(d))
                            /\ out[j].date = Some(FormatDate(e))

C5_Witness ==
    /\ Served("api_stats")
    /\ Len(response.body.daily_counts) = 1
    /\ response.body.daily_counts[1].count = 1
    /\ \E r \in Rows(articles) : Some(now - 30 * TicksPerDay) = r.crawled_at

-----------------------------------------------------------------------------
(* A reader of CSV text: records end at the line breaks outside quotes,      *)
(* fields at the commas outside quotes; a field in quotes loses them, and a   *)
(* doubled quote inside it is one quote.                                      *)
OutsideQuotes(t, i) == Cardinality({j \in 1..(i - 1) : t[j] = "\""}) % 2 = 0

NthOf(S, k) == CHOOSE e \in S : Cardinality({x \in S : x < e}) = k - 1

RecordEnds(t) ==
    {i \in 1..(Len(t) - 1) : t[i] = "\r" /\ t[i + 1] = "\n" /\ OutsideQuotes(t, i)}

FieldEnds(t) == {i \in 1..Len(t) : t[i] = "," /\ OutsideQuotes(t, i)}

Unquoted(f) ==
    IF Len(f) >= 2 /\ f[1] = "\"" /\ f[Len(f)] = "\""
    THEN LET q == SubSeq(f, 2, Len(f) - 1)
             kept == {j \in 1..Len(q) :
                        ~(q[j] = "\"" /\ Cardinality({x \in 1..j : q[x] = "\""}) % 2 = 0)}
         IN  [k \in 1..Cardinality(kept) |-> q[NthOf(kept, k)]]
    ELSE f

ReadRecord(t) ==
    LET seps == FieldEnds(t)
        n == Cardinality(seps)
    IN  [k \in 1..(n + 1) |->
            Unquoted(SubSeq(t, IF k = 1 THEN 1 ELSE NthOf(seps, k - 1) + 1,
                               IF k = n + 1 THEN Len(t) ELSE NthOf(seps, k) - 1))]

ReadCsv(t) ==
    LET ends == RecordEnds(t)
    IN  [k \in 1..Cardinality(ends) |->
            ReadRecord(SubSeq(t, IF k = 1 THEN 1 ELSE NthOf(ends, k - 1) + 2,
                                 NthOf(ends, k) - 1))]

TextOrEmpty(x) == IF IsNull(x) THEN <<>> ELSE Val(x)

ExportedFields(a) ==
    <<TextOrEmpty(a.title), TextOrEmpty(a.author), TextOrEmpty(a.url),
      IF IsNull(a.crawled_at) THEN <<>> ELSE FormatTimestamp(Val(a.crawled_at))>>

(* C6: the CSV export is the header Title, Author, URL, Crawled At and then   *)
(* one record of exactly 4 fields per article of the table, in crawled_at     *)
(* descending order, a NULL column being the empty string and never the text  *)
(* None or null.                                                              *)
C6_CsvExport ==
    Served("export_csv") =>
        LET out == ReadCsv(response.body.output)
        IN  /\ Len(out) = Len(articles) + 1
            /\ Len(response.body.output) >= 2
            /\ Len(response.body.output) - 1 \in RecordEnds(response.body.output)
            /\ out[1] = <<<<"T", "i", "t", "l", "e">>, <<"A", "u", "t", "h", "o", "r">>,
                          <<"U", "R", "L">>,
                          <<"C", "r", "a", "w", "l", "e", "d", " ", "A", "t">>>>
            /\ \A i \in 1..Len(out) :
                 /\ Len(out[i]) = 4
                 /\ \A f \in 1..4 : out[i][f] \notin {<<"N", "o", "n", "e">>, <<"n", "u", "l", "l">>}
            /\ \A i \in 1..Len(articles) :
                 /\ \E j \in 1..Len(articles) :
                      /\ out[i + 1] = ExportedFields(articles[j])
                      /\ SortedPlace(articles, articles[j].crawled_at, i)
                 /\ Cardinality({k \in 1..Len(articles) : out[k + 1] = ExportedFields(articles[i])})
                      = Cardinality({k \in 1..Len(articles) :
                                       ExportedFields(articles[k]) = ExportedFields(articles[i])})

C6_Witness ==
    /\ Served("export_csv")
    /\ Len(articles) = 2
    /\ \E r \in Rows(articles) : IsNull(r.title) /\ IsNull(r.url) /\ IsNull(r.crawled_at)
    /\ \E r \in Rows(articles) : ~IsNull(r.title) /\ "," \in Range(Val(r.title))

-----------------------------------------------------------------------------
(* C7: the SQL text of the queries of Listing and Author profile is fixed by  *)
(* which of search and author are non-empty; the values of search, author     *)
(* and page are bound parameters only, as many and in the order of the        *)
(* placeholders: the filter values, and for the page query then 50 and the    *)
(* offset.                                                                    *)
FilterText(hasSearch, hasAuthor) ==
    IF hasSearch /\ hasAuthor
    THEN <<"(title ILIKE ", "%s", " OR author ILIKE ", "%s", ")", " AND ", "author = ", "%s">>
    ELSE IF hasSearch THEN <<"(title ILIKE ", "%s", " OR author ILIKE ", "%s", ")">>
    ELSE IF hasAuthor THEN <<"author = ", "%s">>
    ELSE <<"1=1">>

FilterValues(search, author) ==
    (IF Len(search) > 0 THEN <<<<"%">> \o search \o <<"%">>, <<"%">> \o search \o <<"%">>>>
     ELSE <<>>)
    \o (IF Len(author) > 0 THEN <<author>> ELSE <<>>)

NumPlaceholders(text) == Cardinality({i \in 1..Len(text) : text[i] = "%s"})

C7_BoundParameters ==
    /\ \A i \in 1..Len(issued) : NumPlaceholders(issued[i].text) = Len(issued[i].params)
    /\ args.route = "articles" =>
         LET ft == FilterText(Len(args.search) > 0, Len(args.author) > 0)
             fv == FilterValues(args.search, args.author)
         IN  /\ Len(issued) <= 2
             /\ Len(issued) >= 1 =>
                  /\ issued[1].text
                       = <<"SELECT COUNT(", "*", ") as total FROM articles WHERE ">> \o ft
                  /\ issued[1].params = fv
             /\ Len(issued) = 2 =>
                  /\ issued[2].text
                       = <<"SELECT id, title, author, url, crawled_at FROM articles WHERE ">>
                         \o ft
                         \o <<" ORDER BY crawled_at DESC LIMIT ", "%s", " OFFSET ", "%s">>
                  /\ issued[2].params = fv \o <<50, (GetPage(args.page) - 1) * 50>>
    /\ args.route = "author" =>
         \A i \in 1..Len(issued) :
            /\ issued[i].params = <<args.author_name>>
            /\ issued[i].text \in
                 { <<"SELECT COUNT(", "*",
                     ") as article_count, MIN(crawled_at) as first_article, MAX(crawled_at) as latest_article FROM articles WHERE author = ",
                     "%s">>,
                   <<"SELECT title, url, crawled_at FROM articles WHERE author = ", "%s",
                     " ORDER BY crawled_at DESC">> }

C7_Witness ==
    /\ Served("articles")
    /\ Len(issued) = 2
    /\ args.search = <<"b">>
    /\ args.author = al
    /\ response.body.page = 2

-----------------------------------------------------------------------------
-----------------------------------------------------------------------------
(* C10: Author profile reports the number of rows whose author is exactly the *)
(* name, their earliest and latest crawled_at, and exactly those rows in      *)
(* crawled_at descending order; count 0, an empty list and no error for a     *)
(* name without rows.                                                         *)
WrittenBy(name) ==
    LET By(r) == ~IsNull(r.author) /\ Val(r.author) = name
    IN  SelectSeq(articles, By)

C10_AuthorProfile ==
    Finished("author") =>
        LET S == WrittenBy(args.author_name)
            times == {Val(S[i].crawled_at) : i \in {j \in 1..Len(S) : ~IsNull(S[j].crawled_at)}}
            b == response.body
        IN  /\ response.status = 200
            /\ b.stats.article_count = Len(S)
            /\ \A t \in times :
                 /\ Val(b.stats.first_article) <= t
                 /\ t <= Val(b.stats.latest_article)
            /\ IF times = {} THEN IsNull(b.stats.first_article) /\ IsNull(b.stats.latest_article)
               ELSE Val(b.stats.first_article) \in times /\ Val(b.stats.latest_article) \in times
            /\ Len(b.articles) = Len(S)
            /\ IsSortedRun(b.articles, S, {"crawled_at", "title", "url"}, 0)
            /\ (Len(S) = 0 => b.articles = <<>>)

C10_Witness ==
    /\ Served("author")
    /\ response.body.stats.article_count = 1
    /\ Len(response.body.articles) = 1
    /\ Len(articles) = 2
    /\ \E r \in Rows(articles) : r.author = Some(Bob)
    /\ args.author_name = bob

====
